---- MODULE Spec2Model ----
(***************************************************************************)
(* Model of the LaunchWeekAI generation back end.                          *)
(*                                                                         *)
(*   - the job launcher  POST /api/jobs/simple-start  and its background   *)
(*     pipeline processInBackground (src/app/api/jobs/simple-start),       *)
(*   - the status endpoint GET /api/jobs/simple-status,                    *)
(*   - the markdown validation of the generate, checkout and               *)
(*     extract-context routes, and the synchronous POST /api/generate,     *)
(*   - the Stripe webhook POST and GET /api/webhook,                       *)
(*   - the two pages that drive or follow a generation from the browser:   *)
(*     GeneratePage and AsyncGeneratePage.                                 *)
(*                                                                         *)
(* The job store is the module-level Map playbookStorage that the launcher,*)
(* the pipeline and the status endpoint all reach through                  *)
(* await import('../../generate/route'); the model takes that import to    *)
(* resolve to the one Map of that module.                                  *)
(*                                                                         *)
(* JavaScript runs each handler to its next await without interruption, so *)
(* one action is the code between two suspension points.  A timer          *)
(* (setTimeout) touches no shared state and is folded into the code that   *)
(* runs when it fires.                                                     *)
(***************************************************************************)
EXTENDS Integers, Sequences, FiniteSets, TLC

(***************************************************************************)
(* Bounds of the model.                                                    *)
(***************************************************************************)
MaxJobs == 1        \* ids uuidv4 can hand out
MaxPad == 1         \* whitespace characters around a request's text
MaxFaults == 1      \* abnormal outcomes of external calls in one run
MaxDay == 1         \* calendar days that pass during a run
MaxTimers == 2      \* setInterval timers the polling page holds at once

(***************************************************************************)
(* JavaScript values.                                                      *)
(***************************************************************************)
JsNull == [t |-> "null"]
JsUndefined == [t |-> "undefined"]
JsNumber == [t |-> "number"]
\* a string; a template string `...${arg}...` is its template and its argument
Str(s) == [t |-> "string", v |-> <<s>>]
Tmpl(name, arg) == [t |-> "string", v |-> <<name, arg>>]

(***************************************************************************)
(* Markdown inputs.  A string is kept as its runs of whitespace ("ws") and *)
(* other ("ch") characters, so that length and trim() are computed and not *)
(* assumed.                                                                *)
(***************************************************************************)
Run(c, n) == [c |-> c, n |-> n]
Text(runs) == [t |-> "text", runs |-> runs]

RECURSIVE SumRuns(_)
SumRuns(runs) ==
    IF runs = <<>> THEN 0 ELSE Head(runs).n + SumRuns(Tail(runs))

\* String.prototype.length
Length(md) == SumRuns(md.runs)

RECURSIVE DropLeadingWs(_)
DropLeadingWs(runs) ==
    IF runs # <<>> /\ Head(runs).c = "ws" THEN DropLeadingWs(Tail(runs)) ELSE runs

RECURSIVE DropTrailingWs(_)
DropTrailingWs(runs) ==
    IF runs # <<>> /\ runs[Len(runs)].c = "ws"
    THEN DropTrailingWs(SubSeq(runs, 1, Len(runs) - 1))
    ELSE runs

\* String.prototype.trim
Trim(md) == Text(DropTrailingWs(DropLeadingWs(md.runs)))

\* typeof markdown === 'string'
IsString(md) == md.t = "text"

\* JavaScript truthiness of the request's markdown field
Truthy(md) ==
    CASE md.t = "text" -> Length(md) > 0
      [] md.t = "number" -> TRUE
      [] OTHER -> FALSE

(***************************************************************************)
(* Markdown validation shared by the generate, checkout and                *)
(* extract-context routes.                                                 *)
(***************************************************************************)
MaxMarkdownLength == 50000
MinTrimmedLength == 100

\* the validation with its length test off by one
ValidateMarkdownOffByOne(md) ==
    IF ~Truthy(md) \/ ~IsString(md) THEN "required"
    ELSE IF Length(md) >= MaxMarkdownLength THEN "tooLong"
    ELSE IF Length(Trim(md)) < MinTrimmedLength THEN "tooShort"
    ELSE "ok"

\* the three early returns of the routes; "ok" when none is taken
ValidateMarkdown(md) ==
    IF ~Truthy(md) \/ ~IsString(md) THEN "required"
    ELSE IF Length(md) > MaxMarkdownLength THEN "tooLong"
    ELSE IF Length(Trim(md)) < MinTrimmedLength THEN "tooShort"
    ELSE "ok"

(***************************************************************************)
(* The pipeline's stages and the job record.                               *)
(***************************************************************************)
steps ==
    << [id |-> "target-user-analysis", name |-> "Analyzing target users", time |-> 45],
       [id |-> "launch-timeline", name |-> "Creating launch timeline", time |-> 30],
       [id |-> "platform-strategy", name |-> "Developing platform strategy", time |-> 20],
       [id |-> "content-templates", name |-> "Generating content templates", time |-> 15],
       [id |-> "metrics-dashboard", name |-> "Setting up metrics dashboard", time |-> 5] >>

\* the sections laid out in the opposite order
stepOrderReversed ==
    << "metrics-dashboard", "content-templates", "platform-strategy",
       "launch-timeline", "target-user-analysis" >>

stepOrder ==
    << "target-user-analysis", "launch-timeline", "platform-strategy",
       "content-templates", "metrics-dashboard" >>

\* GENERATION_STEPS of the generate-step route
GENERATION_STEPS ==
    { "target-user-analysis", "launch-timeline", "platform-strategy",
      "content-templates", "metrics-dashboard" }

JobIds == 1 .. MaxJobs
\* ids a client can ask the status of: every job id and 0, an id never issued
QueryIds == 0 .. MaxJobs

\* the record POST stores for a new job
InitialRecord(now) ==
    [ status |-> "processing",
      playbook |-> JsNull,
      error |-> JsNull,
      createdAt |-> now,
      progress |-> [ currentStep |-> 0,
                     totalSteps |-> 6,
                     stepName |-> "Starting generation...",
                     estimatedTimeRemaining |-> 90 ] ]

\* the update seen with its first assignment alone applied
WithProgressStepOnly(job, n, name, eta) == [job EXCEPT !.progress.currentStep = n]

\* job.progress.currentStep = n; job.progress.stepName = name; ...
WithProgress(job, n, name, eta) ==
    [job EXCEPT !.progress.currentStep = n,
                !.progress.stepName = name,
                !.progress.estimatedTimeRemaining = eta]

(***************************************************************************)
(* Extracted context (the fields createFinalPlaybook reads).               *)
(***************************************************************************)
MockContext ==
    [ productName |-> Str("Test Product"),
      coreValueProposition |-> Str("Helps developers build AI features faster"),
      productCategory |-> Str("AI Developer Tool"),
      productStage |-> Str("Beta"),
      targetMarketSize |-> Str("Large (millions of developers)") ]

\* what the model answers for a document it understood
AiContext ==
    [ productName |-> Str("Acme"),
      coreValueProposition |-> Str("value"),
      productCategory |-> Str("category"),
      productStage |-> Str("mvp"),
      targetMarketSize |-> Str("niche") ]

\* extractContext returns {} when the model call or the JSON parse fails
EmptyContext ==
    [ productName |-> JsUndefined,
      coreValueProposition |-> JsUndefined,
      productCategory |-> JsUndefined,
      productStage |-> JsUndefined,
      targetMarketSize |-> JsUndefined ]

(***************************************************************************)
(* Record<string, string>: the keys in insertion order with their values.  *)
(***************************************************************************)
HasKey(obj, k) == \E n \in 1 .. Len(obj) : obj[n].key = k

\* obj[k], undefined when the key is absent
Get(obj, k) ==
    IF HasKey(obj, k)
    THEN (CHOOSE e \in {obj[n] : n \in 1 .. Len(obj)} : e.key = k).value
    ELSE JsUndefined

\* obj[k] = v
Put(obj, k, v) ==
    IF HasKey(obj, k)
    THEN [n \in 1 .. Len(obj) |-> IF obj[n].key = k THEN [key |-> k, value |-> v] ELSE obj[n]]
    ELSE Append(obj, [key |-> k, value |-> v])

\* JavaScript truthiness of a value that is a string, null or undefined
TruthyValue(v) == v.t = "string" /\ v.v # <<"">>

\* a || b
OrElse(a, b) == IF TruthyValue(a) THEN a ELSE b

\* context?.field
Field(ctx, f) == IF ctx = JsUndefined THEN JsUndefined ELSE ctx[f]

(***************************************************************************)
(* The routes the pipeline calls over HTTP.                                *)
(***************************************************************************)
\* what the language model can answer to one generateStep call
AiOutcomes == {"text", "empty", "error"}

\* the text the language model writes for a stage
AiText(step) == Tmpl("generated", step)

\* POST /api/extract-context: the response the caller receives
ExtractContextRoute(md, mock, ai) ==
    IF mock THEN [ok |-> TRUE, status |-> 200, context |-> MockContext]
    ELSE IF ValidateMarkdown(md) # "ok"
         THEN [ok |-> FALSE, status |-> 400, context |-> JsUndefined]
         ELSE [ok |-> TRUE, status |-> 200, context |-> ai]

\* generateStep: the completion's content, a fallback text when it is empty,
\* an exception when the call fails
generateStep(step, ai) ==
    CASE ai = "text" -> [threw |-> FALSE, value |-> AiText(step)]
      [] ai = "empty" ->
            [threw |-> FALSE,
             value |-> OrElse(Str(""), Tmpl("Failed to generate ${step} content.", step))]
      [] OTHER -> [threw |-> TRUE, value |-> Tmpl("AI generation failed for ${step}", step)]

\* POST /api/generate-step: the response the caller receives
GenerateStepRoute(md, ctx, step, ai) ==
    IF ~Truthy(md) \/ ctx = JsUndefined
    THEN [ok |-> FALSE, status |-> 400, result |-> JsUndefined]
    ELSE IF step \notin GENERATION_STEPS
    THEN [ok |-> FALSE, status |-> 400, result |-> JsUndefined]
    ELSE LET r == generateStep(step, ai) IN
         IF r.threw
         THEN [ok |-> FALSE, status |-> 500, result |-> JsUndefined]
         ELSE [ok |-> TRUE, status |-> 200, result |-> r.value]

(***************************************************************************)
(* createFinalPlaybook: the header built from the context and the day of   *)
(* the call, then one section per stage of stepOrder.                      *)
(***************************************************************************)
createFinalPlaybook(ctx, results, now) ==
    [ t |-> "playbook",
      title |-> OrElse(Field(ctx, "productName"), Str("Your Product")),
      generatedOn |-> now,
      product |-> OrElse(Field(ctx, "productName"), Str("Not specified")),
      value |-> OrElse(Field(ctx, "coreValueProposition"), Str("Not specified")),
      category |-> OrElse(Field(ctx, "productCategory"), Str("Not specified")),
      stage |-> OrElse(Field(ctx, "productStage"), Str("Not specified")),
      market |-> OrElse(Field(ctx, "targetMarketSize"), Str("Not specified")),
      sections |-> [ n \in 1 .. Len(stepOrder) |->
                       [ heading |-> stepOrder[n],
                         body |-> OrElse(Get(results, stepOrder[n]),
                                         Str("Generation failed")) ] ] ]

(***************************************************************************)
(* State.                                                                  *)
(***************************************************************************)
VARIABLES
    today,            \* the calendar day new Date() reads
    mockMode,         \* process.env.MOCK_MODE === 'true'
    playbookStorage,  \* the Map of generate/route: id -> record, JsUndefined when absent
    pc,               \* where each job's processInBackground stands
    markdown,         \* processInBackground's parameter
    context,          \* its local: the extracted context
    i,                \* its loop index
    stepResults,      \* its local
    previousSteps,    \* its local
    genCalls,         \* the requests it sent to /api/generate-step, with their outcome
    faults,           \* abnormal outcomes of external calls so far
    allocated,        \* the ids uuidv4 has handed out
    generating,       \* the requests of POST /api/generate awaiting generatePlaybook
    issued,           \* the job ids POST has returned to a caller
    startResponse,    \* the response of POST /api/jobs/simple-start, in the
                      \* state that follows the request; NoResponse otherwise
    statusResponse,   \* the same for GET /api/jobs/simple-status
    routeResponse,    \* the same for the generate, checkout and extract-context routes
    webhookStorage,   \* the Map of webhook/route: playbookId -> record
    webhookPending,   \* the deliveries awaiting generatePlaybook in the webhook
    clientPc,         \* where GeneratePage.startGeneration stands
    clientI,          \* its loop index
    clientStepResults,\* GeneratePage's React state stepResults
    clientRequests,   \* the previousSteps of each request it sent to /api/generate-step
    clientPlaybook,   \* the finalPlaybook generateFinalPlaybook built, JsUndefined before
    clientError,      \* GeneratePage's React state error
    clientClosure,    \* the stepResults that the running startGeneration closed over
    pollPage,         \* AsyncGeneratePage: "unmounted", "mounted", or "left" once it navigated away
    pollCount,        \* its React state pollCount
    pollTimers,       \* its active setInterval timers
    pollInflight,     \* its status requests awaiting their response
    pollError,        \* its React state error
    jobStatus,        \* its React state jobStatus
    serverStatus      \* the status the polled job has on the server

jobLocals == <<pc, markdown, context, i, stepResults, previousSteps, genCalls>>
webhookVars == <<webhookStorage, webhookPending>>
clientVars == <<clientPc, clientI, clientStepResults, clientRequests, clientPlaybook,
                clientError, clientClosure>>
pageVars == <<pollPage, pollCount, pollTimers, pollInflight, pollError, jobStatus,
              serverStatus>>
\* the state of the webhook and of the two client pages
outside == <<webhookVars, clientVars, pageVars>>
vars == <<today, mockMode, playbookStorage, pc, markdown, context, i, stepResults,
          previousSteps, genCalls, faults, allocated, generating, issued,
          startResponse, statusResponse, routeResponse, outside>>

NoResponse == [status |-> 0]

\* the ids a webhook event can carry in its metadata
PlaybookIds == {1, 2}

InitOutside ==
    /\ webhookStorage = [id \in PlaybookIds |-> JsUndefined]
    /\ webhookPending = {}
    /\ clientPc = "unmounted"
    /\ clientI = 0
    /\ clientStepResults = <<>>
    /\ clientRequests = <<>>
    /\ clientPlaybook = JsUndefined
    /\ clientError = JsNull
    /\ clientClosure = <<>>
    /\ pollPage = "unmounted"
    /\ pollCount = 0
    /\ pollTimers = {}
    /\ pollInflight = {}
    /\ pollError = JsNull
    /\ jobStatus = JsNull
    /\ serverStatus = "processing"

Init ==
    /\ today = 0
    /\ mockMode \in BOOLEAN
    /\ playbookStorage = [id \in QueryIds |-> JsUndefined]
    /\ pc = [j \in JobIds |-> "idle"]
    /\ markdown = [j \in JobIds |-> JsUndefined]
    /\ context = [j \in JobIds |-> JsUndefined]
    /\ i = [j \in JobIds |-> 0]
    /\ stepResults = [j \in JobIds |-> <<>>]
    /\ previousSteps = [j \in JobIds |-> <<>>]
    /\ genCalls = [j \in JobIds |-> <<>>]
    /\ faults = 0
    /\ allocated = {}
    /\ generating = {}
    /\ issued = {}
    /\ startResponse = NoResponse
    /\ statusResponse = NoResponse
    /\ routeResponse = NoResponse
    /\ InitOutside

(***************************************************************************)
(* POST /api/jobs/simple-start                                             *)
(***************************************************************************)
\* the request bodies tried: no markdown field, a number, "", a text of the
\* minimum length and one above the maximum length
StartInputs ==
    { JsUndefined, JsNumber, Text(<<>>),
      Text(<<Run("ch", MinTrimmedLength)>>),
      Text(<<Run("ch", MaxMarkdownLength + 1)>>) }

\* the launcher leaving the first write to the pipeline
StoreInitialSkipped(store, jobId, now) == store

\* playbookStorage.set(jobId, {status: 'processing', ...})
StoreInitial(store, jobId, now) == [store EXCEPT ![jobId] = InitialRecord(now)]

\* the call awaited: it returns when the pipeline has ended
AwaitedCall == "done"

\* processInBackground(jobId, markdown), not awaited: the call returns when the
\* function reaches its first await, the import of the storage module
UnawaitedCall == "import"

\* uuidv4() yields an id it has not yielded before; ids are opaque, and the
\* model names them in the order they are handed out
UnusedIds == JobIds \ allocated
\* an id source that can repeat itself
RepeatingIds == JobIds
FreshIds == {j \in UnusedIds : \A k \in UnusedIds : j <= k}

\* the launcher storing the record and starting the pipeline before it validates
StartStoresFirst(md) ==
    \E jobId \in FreshIds :
        /\ playbookStorage' = StoreInitial(playbookStorage, jobId, today)
        /\ pc' = [pc EXCEPT ![jobId] = UnawaitedCall]
        /\ markdown' = [markdown EXCEPT ![jobId] = md]
        /\ allocated' = allocated \cup {jobId}
        /\ startResponse' =
              IF ~Truthy(md) \/ ~IsString(md)
              THEN [status |-> 400, error |-> Str("Markdown content is required")]
              ELSE [status |-> 200, jobId |-> jobId, jobStatus |-> "processing"]
        /\ issued' = IF ~Truthy(md) \/ ~IsString(md) THEN issued ELSE issued \cup {jobId}
        /\ statusResponse' = NoResponse
        /\ routeResponse' = NoResponse
        /\ UNCHANGED <<outside, today, mockMode, context, i, stepResults, previousSteps,
                       genCalls, faults, generating>>

\* POST with the ids uuidv4 can yield next
Launch(md, ids) ==
    IF ~Truthy(md) \/ ~IsString(md)
    THEN /\ startResponse' = [status |-> 400, error |-> Str("Markdown content is required")]
         /\ statusResponse' = NoResponse
         /\ routeResponse' = NoResponse
         /\ UNCHANGED <<outside, today, mockMode, playbookStorage, jobLocals, faults, allocated,
                        generating, issued>>
    ELSE \E jobId \in ids :
         /\ playbookStorage' = StoreInitial(playbookStorage, jobId, today)
         /\ pc' = [pc EXCEPT ![jobId] = UnawaitedCall]
         /\ markdown' = [markdown EXCEPT ![jobId] = md]
         /\ allocated' = allocated \cup {jobId}
         /\ issued' = issued \cup {jobId}
         /\ startResponse' = [status |-> 200, jobId |-> jobId, jobStatus |-> "processing"]
         /\ statusResponse' = NoResponse
         /\ routeResponse' = NoResponse
         /\ UNCHANGED <<outside, today, mockMode, context, i, stepResults, previousSteps,
                        genCalls, faults, generating>>

Start(md) == Launch(md, FreshIds)

(***************************************************************************)
(* GET /api/jobs/simple-status                                             *)
(***************************************************************************)
\* the response body with the location given whatever the status
StatusBodyAlwaysUrl(jobId, job) ==
    [ status |-> 200,
      jobId |-> jobId,
      jobStatus |-> job.status,
      progress |-> job.progress,
      error |-> job.error,
      createdAt |-> job.createdAt,
      playbookUrl |-> Tmpl("/playbook/${jobId}", jobId),
      hasPlaybook |-> job.playbook # JsNull /\ job.playbook # JsUndefined ]

StatusBody(jobId, job) ==
    [ status |-> 200,
      jobId |-> jobId,
      jobStatus |-> job.status,
      progress |-> job.progress,
      error |-> job.error,
      createdAt |-> job.createdAt,
      playbookUrl |-> IF job.status = "complete"
                      THEN Tmpl("/playbook/${jobId}", jobId) ELSE JsNull,
      hasPlaybook |-> job.playbook # JsNull /\ job.playbook # JsUndefined ]

\* the endpoint answering an unknown id with a record it makes up and keeps
GetStatusSynthesizes(hasId, jobId) ==
    /\ hasId
    /\ playbookStorage' =
          IF playbookStorage[jobId] = JsUndefined
          THEN StoreInitial(playbookStorage, jobId, today)
          ELSE playbookStorage
    /\ statusResponse' = StatusBody(jobId, playbookStorage'[jobId])
    /\ startResponse' = NoResponse
    /\ routeResponse' = NoResponse
    /\ UNCHANGED <<outside, today, mockMode, jobLocals, faults, allocated, generating, issued>>

GetStatus(hasId, jobId) ==
    /\ statusResponse' =
          IF ~hasId THEN [status |-> 400, error |-> Str("Job ID is required")]
          ELSE IF playbookStorage[jobId] = JsUndefined
               THEN [status |-> 404, jobId |-> jobId, error |-> Str("Job not found")]
               ELSE StatusBody(jobId, playbookStorage[jobId])
    /\ startResponse' = NoResponse
    /\ routeResponse' = NoResponse
    /\ UNCHANGED <<outside, today, mockMode, playbookStorage, jobLocals, faults, allocated,
                   generating, issued>>

(***************************************************************************)
(* processInBackground                                                     *)
(***************************************************************************)
\* the progress written to every record of the store
UpdateProgressOfAll(store, jobId, n, name, eta) ==
    [id \in DOMAIN store |->
        IF store[id] # JsUndefined THEN WithProgress(store[id], n, name, eta) ELSE store[id]]

\* if (playbookStorage.has(jobId)) { job.progress... ; playbookStorage.set(jobId, job) }
UpdateProgress(store, jobId, n, name, eta) ==
    IF store[jobId] # JsUndefined
    THEN [store EXCEPT ![jobId] = WithProgress(@, n, name, eta)]
    ELSE store

\* the progress update that opens iteration k of the loop (k counts from 0)
BeginIteration(store, jobId, k) ==
    UpdateProgress(store, jobId, k + 3, steps[k + 1].name, steps[k + 1].time)

\* the completion that leaves the progress of the last stage in place
CompleteJobKeepsProgress(job, finalPlaybook) ==
    [job EXCEPT !.status = "complete", !.playbook = finalPlaybook]

\* job.status = 'complete'; job.playbook = finalPlaybook; job.progress...
CompleteJob(job, finalPlaybook) ==
    [WithProgress(job, 6, "Completed successfully!", 0)
        EXCEPT !.status = "complete", !.playbook = finalPlaybook]

MarkComplete(store, jobId, finalPlaybook) ==
    IF store[jobId] # JsUndefined
    THEN [store EXCEPT ![jobId] = CompleteJob(@, finalPlaybook)]
    ELSE store

\* the catch block recording the status alone
FailJobStatusOnly(job, message) == [job EXCEPT !.status = "failed"]

\* the catch block recording the message and leaving the status as it was
FailJobKeepsStatus(job, message) == [job EXCEPT !.error = message]

\* job.status = 'failed'; job.error = error.message
FailJob(job, message) == [job EXCEPT !.status = "failed", !.error = message]

\* the catch block logging the error and recording nothing
MarkFailedSkipped(store, jobId, message) == store

\* the catch block
MarkFailed(store, jobId, message) ==
    IF store[jobId] # JsUndefined
    THEN [store EXCEPT ![jobId] = FailJob(@, message)]
    ELSE store

\* the error caught inside the loop, which then goes on
AfterCatchResumes == "stepDelay"

\* the function returns after its catch block
AfterCatch == "done"

\* the loop left hanging after a response that is not ok
AfterHttpErrorHangs == "hung"

\* the branch of the loop taken when the response is not ok: the failure text
\* is stored and the loop goes on to its delay
AfterHttpError == "stepDelay"

\* fetch rejects with a TypeError when the request cannot be made
FetchFailed == Str("fetch failed")

\* the request sent without the earlier outputs
StepRequestWithoutPrevious(jobId, k) ==
    [step |-> steps[k + 1].id, previousSteps |-> <<>>, outcome |-> "pending"]

\* the request to /api/generate-step that iteration k sends
StepRequest(jobId, k) ==
    [step |-> steps[k + 1].id, previousSteps |-> previousSteps[jobId], outcome |-> "pending"]

SetOutcome(calls, outcome) == [calls EXCEPT ![Len(calls)].outcome = outcome]

Fault(normal) == IF normal THEN 0 ELSE 1

\* a step of the pipeline answers no request
Quiet ==
    /\ startResponse' = NoResponse
    /\ statusResponse' = NoResponse
    /\ routeResponse' = NoResponse
    /\ UNCHANGED <<allocated, generating>>

\* from the import of the store to the request to /api/extract-context
BgBegin(jobId) ==
    /\ pc[jobId] = "import"
    /\ playbookStorage' = UpdateProgress(playbookStorage, jobId, 1, "Extracting context...", 75)
    /\ pc' = [pc EXCEPT ![jobId] = "contextFetch"]
    /\ Quiet
    /\ UNCHANGED <<outside, today, mockMode, markdown, context, i, stepResults, previousSteps,
                   genCalls, faults, issued>>

\* the extract-context call fails: the catch block
BgContextThrows(jobId) ==
    /\ pc[jobId] = "contextFetch"
    /\ faults < MaxFaults
    /\ faults' = faults + 1
    /\ playbookStorage' = MarkFailed(playbookStorage, jobId, FetchFailed)
    /\ pc' = [pc EXCEPT ![jobId] = AfterCatch]
    /\ Quiet
    /\ UNCHANGED <<outside, today, mockMode, markdown, context, i, stepResults, previousSteps,
                   genCalls, issued>>

\* the extract-context response arrives: the context is taken from its body,
\* progress moves to step 2, the loop starts and sends its first request
BgContext(jobId, ai) ==
    /\ pc[jobId] = "contextFetch"
    /\ faults + Fault(ai = AiContext) <= MaxFaults
    /\ faults' = faults + Fault(ai = AiContext)
    /\ context' = [context EXCEPT
                     ![jobId] = ExtractContextRoute(markdown[jobId], mockMode, ai).context]
    /\ playbookStorage' =
          BeginIteration(
              UpdateProgress(playbookStorage, jobId, 2, "Generating user analysis...", 60),
              jobId, 0)
    /\ i' = [i EXCEPT ![jobId] = 0]
    /\ genCalls' = [genCalls EXCEPT ![jobId] = Append(@, StepRequest(jobId, 0))]
    /\ pc' = [pc EXCEPT ![jobId] = "stepFetch"]
    /\ Quiet
    /\ UNCHANGED <<outside, today, mockMode, markdown, stepResults, previousSteps, issued>>

\* the generate-step call fails: the catch block
BgStepThrows(jobId) ==
    /\ pc[jobId] = "stepFetch"
    /\ faults < MaxFaults
    /\ faults' = faults + 1
    /\ genCalls' = [genCalls EXCEPT ![jobId] = SetOutcome(@, "threw")]
    /\ playbookStorage' = MarkFailed(playbookStorage, jobId, FetchFailed)
    /\ pc' = [pc EXCEPT ![jobId] = AfterCatch]
    /\ Quiet
    /\ UNCHANGED <<outside, today, mockMode, markdown, context, i, stepResults, previousSteps, issued>>

\* the generate-step call never settles: the fetch is given no signal and no
\* timer races it, so the pipeline stays at its await
BgStepHangs(jobId) ==
    /\ pc[jobId] = "stepFetch"
    /\ faults < MaxFaults
    /\ faults' = faults + 1
    /\ genCalls' = [genCalls EXCEPT ![jobId] = SetOutcome(@, "hung")]
    /\ pc' = [pc EXCEPT ![jobId] = "hung"]
    /\ Quiet
    /\ UNCHANGED <<outside, today, mockMode, playbookStorage, markdown, context, i, stepResults,
                   previousSteps, issued>>

\* the generate-step response arrives and its result, or the failure text, is kept
BgStepResponse(jobId, ai) ==
    /\ pc[jobId] = "stepFetch"
    /\ faults + Fault(ai = "text") <= MaxFaults
    /\ faults' = faults + Fault(ai = "text")
    /\ LET step == steps[i[jobId] + 1]
           stepResponse == GenerateStepRoute(markdown[jobId], context[jobId], step.id, ai)
       IN  IF stepResponse.ok
           THEN /\ stepResults' = [stepResults EXCEPT
                                      ![jobId] = Put(@, step.id, stepResponse.result)]
                /\ previousSteps' = [previousSteps EXCEPT
                                      ![jobId] = Put(@, step.id, stepResponse.result)]
                /\ genCalls' = [genCalls EXCEPT ![jobId] = SetOutcome(@, "ok")]
                /\ pc' = [pc EXCEPT ![jobId] = "stepDelay"]
           ELSE /\ stepResults' = [stepResults EXCEPT
                                      ![jobId] = Put(@, step.id,
                                                     Tmpl("Failed to generate ${step.id}", step.id))]
                /\ genCalls' = [genCalls EXCEPT ![jobId] = SetOutcome(@, "httpError")]
                /\ pc' = [pc EXCEPT ![jobId] = AfterHttpError]
                /\ UNCHANGED previousSteps
    /\ Quiet
    /\ UNCHANGED <<outside, today, mockMode, playbookStorage, markdown, context, i, issued>>

\* the next iteration started while the request of this one is still out
BgNextStepEarly(jobId) ==
    /\ pc[jobId] \in {"stepFetch", "stepDelay"}
    /\ i[jobId] + 1 < Len(steps)
    /\ i' = [i EXCEPT ![jobId] = @ + 1]
    /\ playbookStorage' = BeginIteration(playbookStorage, jobId, i[jobId] + 1)
    /\ genCalls' = [genCalls EXCEPT ![jobId] = Append(@, StepRequest(jobId, i[jobId] + 1))]
    /\ pc' = [pc EXCEPT ![jobId] = "stepFetch"]
    /\ Quiet
    /\ UNCHANGED <<outside, today, mockMode, markdown, context, stepResults, previousSteps,
                   faults, issued>>

\* the delay ends and the next iteration updates progress and sends its request
BgNextStep(jobId) ==
    /\ pc[jobId] = "stepDelay"
    /\ i[jobId] + 1 < Len(steps)
    /\ i' = [i EXCEPT ![jobId] = @ + 1]
    /\ playbookStorage' = BeginIteration(playbookStorage, jobId, i[jobId] + 1)
    /\ genCalls' = [genCalls EXCEPT ![jobId] = Append(@, StepRequest(jobId, i[jobId] + 1))]
    /\ pc' = [pc EXCEPT ![jobId] = "stepFetch"]
    /\ Quiet
    /\ UNCHANGED <<outside, today, mockMode, markdown, context, stepResults, previousSteps,
                   faults, issued>>

\* the last delay ends: the playbook is assembled and the job marked complete
BgFinish(jobId) ==
    /\ pc[jobId] = "stepDelay"
    /\ i[jobId] + 1 = Len(steps)
    /\ i' = [i EXCEPT ![jobId] = @ + 1]
    /\ playbookStorage' =
          MarkComplete(playbookStorage, jobId,
                       createFinalPlaybook(context[jobId], stepResults[jobId], today))
    /\ pc' = [pc EXCEPT ![jobId] = "done"]
    /\ Quiet
    /\ UNCHANGED <<outside, today, mockMode, markdown, context, stepResults, previousSteps,
                   genCalls, faults, issued>>

(***************************************************************************)
(* The generate, checkout and extract-context routes.                      *)
(***************************************************************************)
\* the error text of each early return of the validation
ValidationError(v) ==
    CASE v = "required" -> Str("Markdown content is required")
      [] v = "tooLong" -> Str("Markdown content exceeds 50,000 character limit")
      [] OTHER -> Str("Markdown content too short. Please provide more detailed documentation.")

\* a text of b other characters between l and r whitespace characters
MkText(l, b, r) ==
    Text(SelectSeq(<<Run("ws", l), Run("ch", b), Run("ws", r)>>, LAMBDA x : x.n > 0))

\* the request bodies tried: no markdown field, a number, and texts whose
\* lengths lie on both sides of each limit, bare or padded with whitespace
RouteInputs ==
    {JsUndefined, JsNumber} \cup
    { MkText(l, b, r) :
        l \in {0, MaxPad},
        b \in {0, 1, MinTrimmedLength - 1, MinTrimmedLength,
               MaxMarkdownLength - 1, MaxMarkdownLength, MaxMarkdownLength + 1},
        r \in {0, MaxPad} }

\* generatePlaybook: the completion's content, a fallback text when it is
\* empty, an exception when the call fails
generatePlaybook(ai) ==
    CASE ai = "text" -> [threw |-> FALSE, value |-> Str("playbook")]
      [] ai = "empty" ->
            [threw |-> FALSE,
             value |-> OrElse(Str(""), Str("Failed to generate playbook content."))]
      [] OTHER -> [threw |-> TRUE, value |-> Str("AI generation failed")]

\* POST /api/generate up to its await of generatePlaybook
PostGenerate(md) ==
    /\ IF ValidateMarkdown(md) # "ok"
       THEN /\ routeResponse' = [route |-> "generate", markdown |-> md, status |-> 400,
                                 error |-> ValidationError(ValidateMarkdown(md))]
            /\ UNCHANGED <<playbookStorage, allocated, generating>>
       ELSE \E playbookId \in FreshIds :
            /\ allocated' = allocated \cup {playbookId}
            /\ playbookStorage' = [playbookStorage EXCEPT
                  ![playbookId] = [status |-> "processing", createdAt |-> today]]
            /\ generating' = generating \cup {[playbookId |-> playbookId, markdown |-> md]}
            /\ routeResponse' = NoResponse
    /\ startResponse' = NoResponse
    /\ statusResponse' = NoResponse
    /\ UNCHANGED <<outside, today, mockMode, jobLocals, faults, issued>>

\* POST /api/generate without its inner catch: a failed generation reaches the
\* outer catch, which answers and stores nothing
PostGenerateDoneOuterCatch(req, ai) ==
    /\ req \in generating
    /\ generating' = generating \ {req}
    /\ LET r == generatePlaybook(ai) IN
       IF r.threw
       THEN /\ UNCHANGED playbookStorage
            /\ routeResponse' = [route |-> "generate", markdown |-> req.markdown,
                                 status |-> 500, error |-> Str("Failed to process request")]
       ELSE /\ playbookStorage' = [playbookStorage EXCEPT
                  ![req.playbookId] = [status |-> "complete", playbook |-> r.value,
                                       createdAt |-> today]]
            /\ routeResponse' = [route |-> "generate", markdown |-> req.markdown,
                                 status |-> 200, playbookId |-> req.playbookId]
    /\ startResponse' = NoResponse
    /\ statusResponse' = NoResponse
    /\ UNCHANGED <<outside, today, mockMode, jobLocals, faults, allocated, issued>>

\* POST /api/generate from the return of generatePlaybook to the response
PostGenerateDone(req, ai) ==
    /\ req \in generating
    /\ generating' = generating \ {req}
    /\ LET r == generatePlaybook(ai) IN
       IF r.threw
       THEN /\ playbookStorage' = [playbookStorage EXCEPT
                  ![req.playbookId] = [status |-> "failed", error |-> Str("Generation failed"),
                                       createdAt |-> today]]
            /\ routeResponse' = [route |-> "generate", markdown |-> req.markdown,
                                 status |-> 500, error |-> Str("Failed to generate playbook")]
       ELSE /\ playbookStorage' = [playbookStorage EXCEPT
                  ![req.playbookId] = [status |-> "complete", playbook |-> r.value,
                                       createdAt |-> today]]
            /\ routeResponse' = [route |-> "generate", markdown |-> req.markdown,
                                 status |-> 200, playbookId |-> req.playbookId]
    /\ startResponse' = NoResponse
    /\ statusResponse' = NoResponse
    /\ UNCHANGED <<outside, today, mockMode, jobLocals, faults, allocated, issued>>

\* POST /api/checkout; the Stripe session is created or the call throws
PostCheckout(md, sessionCreated) ==
    /\ IF ValidateMarkdown(md) # "ok"
       THEN /\ routeResponse' = [route |-> "checkout", markdown |-> md, status |-> 400,
                                 error |-> ValidationError(ValidateMarkdown(md))]
            /\ UNCHANGED allocated
       ELSE \E playbookId \in FreshIds :
            /\ allocated' = allocated \cup {playbookId}
            /\ routeResponse' =
                  IF sessionCreated
                  THEN [route |-> "checkout", markdown |-> md, status |-> 200,
                        playbookId |-> playbookId]
                  ELSE [route |-> "checkout", markdown |-> md, status |-> 500,
                        error |-> Str("Failed to create checkout session")]
    /\ startResponse' = NoResponse
    /\ statusResponse' = NoResponse
    /\ UNCHANGED <<outside, today, mockMode, playbookStorage, jobLocals, faults, generating, issued>>

\* POST /api/extract-context
PostExtractContext(md, ai) ==
    /\ LET r == ExtractContextRoute(md, mockMode, ai) IN
       routeResponse' =
          IF r.ok
          THEN [route |-> "extract-context", markdown |-> md, status |-> r.status,
                context |-> r.context]
          ELSE [route |-> "extract-context", markdown |-> md, status |-> r.status,
                error |-> ValidationError(ValidateMarkdown(md))]
    /\ startResponse' = NoResponse
    /\ statusResponse' = NoResponse
    /\ UNCHANGED <<outside, today, mockMode, playbookStorage, jobLocals, faults, allocated,
                   generating, issued>>

(***************************************************************************)
(* The generate-step route and createFinalPlaybook, called on their own.   *)
(***************************************************************************)
\* the calendar day changes
Tick ==
    /\ today < MaxDay
    /\ today' = today + 1
    /\ UNCHANGED <<outside, mockMode, playbookStorage, jobLocals, faults, allocated, generating,
                   issued, startResponse, statusResponse, routeResponse>>

\* the request bodies tried on /api/generate-step
StepMarkdowns == {JsUndefined, Text(<<>>), Text(<<Run("ch", MinTrimmedLength)>>)}
StepContexts == {JsUndefined, EmptyContext, AiContext}
StepNames == GENERATION_STEPS \cup {"", "unknown-step"}

\* POST /api/generate-step
PostGenerateStep(md, ctx, step, ai) ==
    /\ LET r == GenerateStepRoute(md, ctx, step, ai) IN
       routeResponse' = [route |-> "generate-step", markdown |-> md, context |-> ctx,
                         step |-> step, ai |-> ai, status |-> r.status,
                         result |-> r.result]
    /\ startResponse' = NoResponse
    /\ statusResponse' = NoResponse
    /\ UNCHANGED <<outside, today, mockMode, playbookStorage, jobLocals, faults, allocated,
                   generating, issued>>

\* what a stage can have left in the steps object: nothing, "", or its text
StageOutputs(stepId) == {JsUndefined, Str(""), AiText(stepId)}

\* the steps object whose keys were set in the order of ids
StepsObject(ids, out) ==
    LET present == SelectSeq(ids, LAMBDA id : out[id] # JsUndefined)
    IN  [n \in 1 .. Len(present) |-> [key |-> present[n], value |-> out[present[n]]]]

Reverse(seq) == [n \in 1 .. Len(seq) |-> seq[Len(seq) + 1 - n]]

\* the steps objects tried: the first, third and last stage each absent, empty
\* or with its text, the other two with their text, keys set in stage order or
\* in the opposite order
AssembleInputs ==
    UNION { { StepsObject(stepOrder, out), StepsObject(Reverse(stepOrder), out) } :
            out \in { f \in [GENERATION_STEPS ->
                                UNION {StageOutputs(id) : id \in GENERATION_STEPS}] :
                        /\ \A id \in GENERATION_STEPS : f[id] \in StageOutputs(id)
                        /\ f[stepOrder[2]] = AiText(stepOrder[2])
                        /\ f[stepOrder[4]] = AiText(stepOrder[4]) } }

\* createFinalPlaybook(context, steps), called on the day the clock shows
Assemble(ctx, results) ==
    /\ routeResponse' = [route |-> "assemble", context |-> ctx, steps |-> results,
                         artifact |-> createFinalPlaybook(ctx, results, today)]
    /\ startResponse' = NoResponse
    /\ statusResponse' = NoResponse
    /\ UNCHANGED <<outside, today, mockMode, playbookStorage, jobLocals, faults, allocated,
                   generating, issued>>

NextStages ==
    \/ Tick
    \/ \E md \in StepMarkdowns, ctx \in StepContexts, step \in StepNames, ai \in AiOutcomes :
          PostGenerateStep(md, ctx, step, ai)
    \/ \E ctx \in StepContexts, results \in AssembleInputs : Assemble(ctx, results)

\* the stage runner and the assembler alone, with the clock running
SpecStages == Init /\ [][NextStages]_vars

Next ==
    \/ \E md \in StartInputs : Start(md)
    \/ \E jobId \in QueryIds : GetStatus(TRUE, jobId)
    \/ GetStatus(FALSE, 0)
    \/ \E jobId \in JobIds :
          \/ BgBegin(jobId)
          \/ BgContextThrows(jobId)
          \/ \E ai \in {AiContext, EmptyContext} : BgContext(jobId, ai)
          \/ BgStepThrows(jobId)
          \/ \E ai \in AiOutcomes : BgStepResponse(jobId, ai)
          \/ BgNextStep(jobId)
          \/ BgFinish(jobId)

Spec == Init /\ [][Next]_vars

\* one step of the pipeline of a job
Pipeline(jobId) ==
    \/ BgBegin(jobId)
    \/ BgContextThrows(jobId)
    \/ \E ai \in {AiContext, EmptyContext} : BgContext(jobId, ai)
    \/ BgStepThrows(jobId)
    \/ \E ai \in AiOutcomes : BgStepResponse(jobId, ai)
    \/ BgNextStep(jobId)
    \/ BgFinish(jobId)

\* the launcher and the pipelines, without the status endpoint, which writes
\* nothing a pipeline reads
NextLive ==
    \/ \E md \in {Text(<<>>), Text(<<Run("ch", MinTrimmedLength)>>)} : Start(md)
    \/ \E jobId \in JobIds : Pipeline(jobId)

\* the event loop resumes a pipeline whose import, timer or fetch has settled
SpecLive ==
    Init /\ [][NextLive]_vars /\ \A jobId \in JobIds : WF_vars(Pipeline(jobId))

\* the launcher and the pipelines when a generation call may never settle
NextHang ==
    \/ NextLive
    \/ \E jobId \in JobIds : BgStepHangs(jobId)

SpecHang ==
    Init /\ [][NextHang]_vars /\ \A jobId \in JobIds : WF_vars(Pipeline(jobId))

(***************************************************************************)
(* Two jobs side by side.                                                  *)
(***************************************************************************)
PairIds == {1, 2}

InitPair ==
    /\ today = 0
    /\ mockMode \in BOOLEAN
    /\ playbookStorage = [id \in PairIds |-> JsUndefined]
    /\ pc = [j \in PairIds |-> "idle"]
    /\ markdown = [j \in PairIds |-> JsUndefined]
    /\ context = [j \in PairIds |-> JsUndefined]
    /\ i = [j \in PairIds |-> 0]
    /\ stepResults = [j \in PairIds |-> <<>>]
    /\ previousSteps = [j \in PairIds |-> <<>>]
    /\ genCalls = [j \in PairIds |-> <<>>]
    /\ faults = 0
    /\ allocated = {}
    /\ generating = {}
    /\ issued = {}
    /\ startResponse = NoResponse
    /\ statusResponse = NoResponse
    /\ routeResponse = NoResponse
    /\ InitOutside

\* two start requests with a valid markdown, their pipelines interleaved in
\* every way, and status requests for either job at any moment
NextPair ==
    \/ Launch(Text(<<Run("ch", MinTrimmedLength)>>),
              {j \in PairIds \ allocated : \A k \in PairIds \ allocated : j <= k})
    \/ \E jobId \in PairIds : GetStatus(TRUE, jobId)
    \/ \E jobId \in PairIds : Pipeline(jobId)

SpecPair == InitPair /\ [][NextPair]_vars

(***************************************************************************)
(* The Stripe webhook, POST and GET /api/webhook.  Its records live in the *)
(* Map of its own module.  A delivery is the signature header, the event   *)
(* type and the session's metadata; the session of a playbookId is the one *)
(* the checkout created for it, so a repeated delivery carries the same    *)
(* session id.                                                             *)
(***************************************************************************)
Signatures == {"none", "invalid", "valid"}
EventTypes == {"checkout.session.completed", "payment_intent.created"}
\* session.metadata: playbookId and markdownPreview, either of them absent
\* (an absent playbookId is the id 0)
Metadata ==
    { [playbookId |-> id, markdownPreview |-> md] :
        id \in PlaybookIds \cup {0}, md \in {JsUndefined, Str("preview")} }

SessionOf(playbookId) == Tmpl("cs_${playbookId}", playbookId)

\* generatePlaybook of the webhook module
WebhookGeneratePlaybook(ai) ==
    CASE ai = "text" -> [threw |-> FALSE, value |-> Str("playbook")]
      [] ai = "empty" ->
            [threw |-> FALSE,
             value |-> OrElse(Str(""), Str("Failed to generate playbook content."))]
      [] OTHER -> [threw |-> TRUE, value |-> Str("AI generation failed")]

WebhookAnswer(status, body) ==
    /\ routeResponse' = [route |-> "webhook", status |-> status, body |-> body]
    /\ startResponse' = NoResponse
    /\ statusResponse' = NoResponse

\* POST /api/webhook up to its response or its await of generatePlaybook
WebhookPost(signature, type, metadata) ==
    /\ IF signature = "none"
       THEN /\ WebhookAnswer(400, Str("No signature provided"))
            /\ UNCHANGED webhookVars
       ELSE IF signature = "invalid"
       THEN /\ WebhookAnswer(400, Str("Invalid signature"))
            /\ UNCHANGED webhookVars
       ELSE IF type # "checkout.session.completed"
       THEN /\ WebhookAnswer(200, Str("received"))
            /\ UNCHANGED webhookVars
       ELSE IF metadata.playbookId = 0 \/ metadata.markdownPreview = JsUndefined
       THEN /\ WebhookAnswer(400, Str("Missing data"))
            /\ UNCHANGED webhookVars
       ELSE /\ webhookStorage' = [webhookStorage EXCEPT
                  ![metadata.playbookId] =
                      [status |-> "processing", sessionId |-> SessionOf(metadata.playbookId),
                       createdAt |-> today]]
            /\ webhookPending' = webhookPending \cup {metadata.playbookId}
            /\ routeResponse' = NoResponse
            /\ startResponse' = NoResponse
            /\ statusResponse' = NoResponse
    /\ UNCHANGED <<clientVars, pageVars, today, mockMode, playbookStorage, jobLocals, faults,
                   allocated, generating, issued>>

\* POST /api/webhook from the return of generatePlaybook to the response
WebhookGenerated(playbookId, ai) ==
    /\ playbookId \in webhookPending
    /\ webhookPending' = webhookPending \ {playbookId}
    /\ LET r == WebhookGeneratePlaybook(ai) IN
       webhookStorage' = [webhookStorage EXCEPT
          ![playbookId] =
              IF r.threw
              THEN [status |-> "failed", error |-> Str("Generation failed"),
                    sessionId |-> SessionOf(playbookId), createdAt |-> today]
              ELSE [status |-> "complete", playbook |-> r.value,
                    sessionId |-> SessionOf(playbookId), createdAt |-> today]]
    /\ WebhookAnswer(200, Str("received"))
    /\ UNCHANGED <<clientVars, pageVars, today, mockMode, playbookStorage, jobLocals, faults,
                   allocated, generating, issued>>

\* GET /api/webhook?id=
WebhookGet(hasId, playbookId) ==
    /\ IF ~hasId
       THEN WebhookAnswer(400, Str("Playbook ID required"))
       ELSE IF webhookStorage[playbookId] = JsUndefined
       THEN WebhookAnswer(404, Str("Playbook not found"))
       ELSE WebhookAnswer(200, webhookStorage[playbookId])
    /\ UNCHANGED <<outside, today, mockMode, playbookStorage, jobLocals, faults,
                   allocated, generating, issued>>

NextWebhook ==
    \/ \E signature \in Signatures, type \in EventTypes, metadata \in Metadata :
          WebhookPost(signature, type, metadata)
    \/ \E playbookId \in webhookPending, ai \in AiOutcomes : WebhookGenerated(playbookId, ai)
    \/ \E hasId \in BOOLEAN, playbookId \in PlaybookIds : WebhookGet(hasId, playbookId)
    \/ Tick

\* the webhook alone, its deliveries in any order and any number
SpecWebhook == Init /\ [][NextWebhook]_vars

(***************************************************************************)
(* GeneratePage, the page that drives the stages from the browser.         *)
(* startGeneration is created by a render and reads the stepResults of     *)
(* that render; the effect that calls it runs once, after the first        *)
(* render.  setStepResults updates the state of the component, which later *)
(* renders read.                                                           *)
(***************************************************************************)
ClientSteps ==
    << [id |-> "target-user-analysis", title |-> "Target User Analysis"],
       [id |-> "launch-timeline", title |-> "7-Day Launch Timeline"],
       [id |-> "platform-strategy", title |-> "Platform Strategy"],
       [id |-> "content-templates", title |-> "Content Templates"],
       [id |-> "metrics-dashboard", title |-> "Metrics Dashboard"] >>

\* what sessionStorage holds for the session
StoredMarkdown == Text(<<Run("ch", MinTrimmedLength)>>)
StoredContext == AiContext

\* stepResults[id]?.result
ResultOf(results, id) ==
    IF Get(results, id) = JsUndefined THEN JsUndefined ELSE Get(results, id).result

\* the previousSteps that iteration k builds from the stepResults it reads
RECURSIVE ClientPreviousSteps(_, _)
ClientPreviousSteps(k, results) ==
    IF k = 0 THEN <<>>
    ELSE LET before == ClientPreviousSteps(k - 1, results)
             prevStep == ClientSteps[k]
         IN  IF TruthyValue(ResultOf(results, prevStep.id))
             THEN Put(before, prevStep.id, ResultOf(results, prevStep.id))
             ELSE before

\* the request to /api/generate-step that iteration k sends
ClientStepRequest(k, results) ==
    [step |-> ClientSteps[k + 1].id, previousSteps |-> ClientPreviousSteps(k, results)]

\* the finalPlaybook of generateFinalPlaybook
ClientFinalPlaybook(ctx, results, now) ==
    [ t |-> "playbook",
      title |-> OrElse(Field(ctx, "productName"), Str("Your Product")),
      generatedOn |-> now,
      product |-> OrElse(Field(ctx, "productName"), Str("Not specified")),
      value |-> OrElse(Field(ctx, "coreValueProposition"), Str("Not specified")),
      category |-> OrElse(Field(ctx, "productCategory"), Str("Not specified")),
      stage |-> OrElse(Field(ctx, "productStage"), Str("Not specified")),
      market |-> OrElse(Field(ctx, "targetMarketSize"), Str("Not specified")),
      sections |-> [ n \in 1 .. Len(ClientSteps) |->
                       [ heading |-> ClientSteps[n].title,
                         body |-> OrElse(ResultOf(results, ClientSteps[n].id),
                                         Str("Generation failed")) ] ] ]

ClientFrame ==
    /\ startResponse' = NoResponse
    /\ statusResponse' = NoResponse
    /\ routeResponse' = NoResponse
    /\ UNCHANGED <<webhookVars, pageVars, today, mockMode, playbookStorage, jobLocals, faults,
                   allocated, generating, issued>>

\* the effect after the first render: back to the start page when the session
\* holds no document, else startGeneration up to its first request
ClientMount(stored) ==
    /\ clientPc = "unmounted"
    /\ IF ~stored
       THEN /\ clientPc' = "home"
            /\ UNCHANGED <<clientI, clientStepResults, clientRequests, clientPlaybook,
                           clientError, clientClosure>>
       ELSE /\ clientClosure' = clientStepResults
            /\ clientI' = 0
            /\ clientRequests' = <<ClientStepRequest(0, clientStepResults)>>
            /\ clientPc' = "stepFetch"
            /\ UNCHANGED <<clientStepResults, clientPlaybook, clientError>>
    /\ ClientFrame

\* startGeneration from the response of /api/generate-step to its next await:
\* the next request, or generateFinalPlaybook up to its request to /api/generate
ClientStepResponse(ai, fetchThrows) ==
    /\ clientPc = "stepFetch"
    /\ LET step == ClientSteps[clientI + 1]
           response == GenerateStepRoute(StoredMarkdown, StoredContext, step.id, ai)
       IN  IF ~fetchThrows /\ response.ok
           THEN /\ clientStepResults' =
                      Put(clientStepResults, step.id,
                          [step |-> step.id, result |-> response.result, completed |-> TRUE])
                /\ IF clientI + 1 < Len(ClientSteps)
                   THEN /\ clientI' = clientI + 1
                        /\ clientRequests' =
                              Append(clientRequests,
                                     ClientStepRequest(clientI + 1, clientClosure))
                        /\ clientPc' = "stepFetch"
                        /\ UNCHANGED clientPlaybook
                   ELSE /\ clientI' = Len(ClientSteps)
                        /\ clientPlaybook' =
                              ClientFinalPlaybook(StoredContext, clientClosure, today)
                        /\ clientPc' = "finalFetch"
                        /\ UNCHANGED clientRequests
                /\ UNCHANGED clientError
           ELSE /\ clientStepResults' =
                      Put(clientStepResults, step.id,
                          [step |-> step.id, result |-> Str(""), completed |-> FALSE])
                /\ clientError' = Tmpl("Failed to generate ${step.title}", step.title)
                /\ clientPc' = "failed"
                /\ UNCHANGED <<clientI, clientRequests, clientPlaybook>>
    /\ UNCHANGED clientClosure
    /\ ClientFrame

\* generateFinalPlaybook from the response of POST /api/generate: with a
\* playbookId it sends the PUT and leaves for the playbook's page
ClientFinalResponse(outcome) ==
    /\ clientPc = "finalFetch"
    /\ CASE outcome = "playbookId" -> clientPc' = "left" /\ UNCHANGED clientError
         [] outcome = "noPlaybookId" -> clientPc' = "stays" /\ UNCHANGED clientError
         [] OTHER -> /\ clientPc' = "failed"
                     /\ clientError' = Str("Failed to create final playbook")
    /\ UNCHANGED <<clientI, clientStepResults, clientRequests, clientPlaybook, clientClosure>>
    /\ ClientFrame

NextClient ==
    \/ \E stored \in BOOLEAN : ClientMount(stored)
    \/ \E ai \in AiOutcomes, fetchThrows \in BOOLEAN : ClientStepResponse(ai, fetchThrows)
    \/ \E outcome \in {"playbookId", "noPlaybookId", "throws"} : ClientFinalResponse(outcome)
    \/ Tick

\* the page alone
SpecClient == Init /\ [][NextClient]_vars

(***************************************************************************)
(* AsyncGeneratePage, the page that polls GET /api/jobs/simple-status.     *)
(*                                                                         *)
(* startPolling is a useCallback with the dependencies [pollCount,         *)
(* sessionId], and the effect that calls it has startPolling among its     *)
(* dependencies and returns no cleanup.  Every poll begins with            *)
(* setPollCount(prev => prev + 1), so after every poll the component       *)
(* renders again with a new startPolling and the effect is due again: once *)
(* the page is mounted with a job, the effect is always due.               *)
(*                                                                         *)
(* A poll reads pollCount from the render that created its startPolling;   *)
(* the only use is the comparison with PollLimit, so a poll keeps whether  *)
(* that value was above the limit ("late"), and pollCount is counted up to *)
(* PollLimit + 1.  A timer whose poll is still out does not fire again,    *)
(* and one call of startPolling awaits its initial poll at a time.         *)
(***************************************************************************)
PollLimit == 60

\* setPollCount(prev => prev + 1)
BumpPollCount(n) == IF n > PollLimit THEN n ELSE n + 1

\* the body of a 200 response of the status endpoint
PolledBody(status) ==
    CASE status = "complete" ->
            [status |-> status, error |-> JsUndefined, playbookUrl |-> Str("/playbook/${jobId}")]
      [] status = "failed" ->
            [status |-> status, error |-> Str("Failed to generate"), playbookUrl |-> JsUndefined]
      [] OTHER -> [status |-> status, error |-> JsUndefined, playbookUrl |-> JsUndefined]

TimerIds == 1 .. MaxTimers
UnusedTimers == TimerIds \ {t.id : t \in pollTimers}

PageFrame ==
    /\ startResponse' = NoResponse
    /\ statusResponse' = NoResponse
    /\ routeResponse' = NoResponse
    /\ UNCHANGED <<webhookVars, clientVars, today, mockMode, playbookStorage, jobLocals,
                   allocated, generating, issued>>

\* startPolling up to the await of its initial poll
StartPolling ==
    /\ pollCount' = BumpPollCount(pollCount)
    /\ pollInflight' = pollInflight \cup {[timer |-> 0, late |-> pollCount > PollLimit]}
    /\ UNCHANGED <<pollTimers, pollError, jobStatus, serverStatus, faults>>

\* the effect after the first render: back to the start page when the session
\* holds no job id, else startPolling
PageMount(hasJob) ==
    /\ pollPage = "unmounted"
    /\ IF hasJob
       THEN pollPage' = "mounted" /\ StartPolling
       ELSE pollPage' = "home" /\ UNCHANGED <<pollCount, pollTimers, pollInflight, pollError,
                                              jobStatus, serverStatus, faults>>
    /\ PageFrame

\* the effect after a render that changed startPolling
PageEffect ==
    /\ pollPage = "mounted"
    /\ \A p \in pollInflight : p.timer # 0
    /\ UnusedTimers # {}
    /\ StartPolling
    /\ UNCHANGED pollPage
    /\ PageFrame

\* a timer fires: its callback up to the await of its poll
TimerFires(t) ==
    /\ pollPage = "mounted"
    /\ t \in pollTimers
    /\ \A p \in pollInflight : p.timer # t.id
    /\ pollCount' = BumpPollCount(pollCount)
    /\ pollInflight' = pollInflight \cup {[timer |-> t.id, late |-> t.late]}
    /\ UNCHANGED <<pollPage, pollTimers, pollError, jobStatus, serverStatus, faults>>
    /\ PageFrame

\* what the caller of poll() does with false: the timer's callback clears its
\* timer, startPolling sets none
PollStops(p) ==
    pollTimers' = {t \in pollTimers : t.id # p.timer}

\* what the caller of poll() does with true: startPolling sets a timer, the
\* timer's callback nothing
PollContinues(p) ==
    pollTimers' =
        IF p.timer = 0
        THEN pollTimers \cup {[id |-> CHOOSE id \in UnusedTimers :
                                          \A other \in UnusedTimers : id <= other,
                                late |-> p.late]}
        ELSE pollTimers

\* poll() from the response of the status endpoint to its return, and what
\* its caller does with the value; the request fails or is answered non-OK
\* (answered = FALSE), or is answered 200 with the job's status
PollResponse(p, answered) ==
    /\ pollPage = "mounted"
    /\ p \in pollInflight
    /\ pollInflight' = pollInflight \ {p}
    /\ faults + Fault(answered) <= MaxFaults
    /\ faults' = faults + Fault(answered)
    /\ IF ~answered
       THEN /\ pollCount' = BumpPollCount(pollCount)
            /\ IF p.late
               THEN /\ pollError' = Str("Generation timed out. Please try again.")
                    /\ PollStops(p)
               ELSE /\ PollContinues(p)
                    /\ UNCHANGED pollError
            /\ UNCHANGED <<pollPage, jobStatus>>
       ELSE LET data == PolledBody(serverStatus) IN
            /\ jobStatus' = data
            /\ UNCHANGED pollCount
            /\ IF data.status = "complete" /\ TruthyValue(data.playbookUrl)
               THEN \* the browser leaves the page, its timers and requests with it
                    /\ pollPage' = "left"
                    /\ pollTimers' = {}
                    /\ pollInflight' = {}
                    /\ UNCHANGED pollError
               ELSE IF data.status = "failed"
               THEN /\ pollError' = OrElse(data.error, Str("Generation failed"))
                    /\ PollStops(p)
                    /\ UNCHANGED pollPage
               ELSE /\ PollContinues(p)
                    /\ UNCHANGED <<pollPage, pollError>>
    /\ UNCHANGED serverStatus
    /\ PageFrame

\* the polled job reaches a terminal status on the server
ServerFinishes(status) ==
    /\ serverStatus = "processing"
    /\ serverStatus' = status
    /\ UNCHANGED <<pollPage, pollCount, pollTimers, pollInflight, pollError, jobStatus, faults>>
    /\ PageFrame

NextPoll ==
    \/ \E hasJob \in BOOLEAN : PageMount(hasJob)
    \/ PageEffect
    \/ \E t \in pollTimers : TimerFires(t)
    \/ \E p \in pollInflight, answered \in BOOLEAN : PollResponse(p, answered)
    \/ \E status \in {"complete", "failed"} : ServerFinishes(status)

\* the page alone: the browser runs every due effect and timer callback, and
\* every request is answered or fails
SpecPoll ==
    /\ Init
    /\ [][NextPoll]_vars
    /\ WF_vars(PageEffect)
    /\ WF_vars(\E t \in pollTimers : TimerFires(t))
    /\ WF_vars(\E p \in pollInflight : PollResponse(p, TRUE))

NextRoutes ==
    \/ \E md \in RouteInputs : PostGenerate(md)
    \/ \E req \in generating, ai \in AiOutcomes : PostGenerateDone(req, ai)
    \/ \E md \in RouteInputs, sessionCreated \in BOOLEAN : PostCheckout(md, sessionCreated)
    \/ \E md \in RouteInputs, ai \in {AiContext, EmptyContext} : PostExtractContext(md, ai)

\* the three validating routes alone
SpecRoutes == Init /\ [][NextRoutes]_vars


(***************************************************************************)
(* Properties.                                                             *)
(***************************************************************************)
Stored(id) == playbookStorage[id] # JsUndefined
Terminal(job) == job.status \in {"complete", "failed"}
Failed(call) == call.outcome \in {"httpError", "threw"}
Calls(jobId) == 1 .. Len(genCalls[jobId])

C3_CurrentStepNonDecreasing ==
    [][\A jobId \in JobIds :
          (Stored(jobId) /\ playbookStorage'[jobId] # JsUndefined) =>
              playbookStorage'[jobId].progress.currentStep >=
                  playbookStorage[jobId].progress.currentStep]_vars

\* C4: progress.currentStep is at most progress.totalSteps in every state.
C4_CurrentStepWithinTotal ==
    \A jobId \in JobIds :
        Stored(jobId) =>
            playbookStorage[jobId].progress.currentStep <=
                playbookStorage[jobId].progress.totalSteps

\* C5: once a job's status is complete or failed its record is frozen: no
\* later step changes its status, its playbook or its error (nor anything
\* else of it), so every later status call returns the same data.
C5_TerminalFrozen ==
    [][\A jobId \in JobIds :
          (Stored(jobId) /\ Terminal(playbookStorage[jobId])) =>
              playbookStorage'[jobId] = playbookStorage[jobId]]_vars

\* a status call answered from the record of a job that has ended
C5_Witness ==
    /\ statusResponse.status = 200
    /\ statusResponse.jobStatus = "failed"
    /\ pc[statusResponse.jobId] = "done"
    /\ statusResponse.error = playbookStorage[statusResponse.jobId].error

\* C6: while a record is processing neither playbook nor error is set; when it
\* is complete the playbook is set and the error is not; when it is failed the
\* error is set and the playbook is not.
C6_ResultXorError ==
    \A jobId \in JobIds :
        Stored(jobId) =>
            LET job == playbookStorage[jobId] IN
            /\ job.status = "processing" => job.playbook = JsNull /\ job.error = JsNull
            /\ job.status = "complete" => job.playbook.t = "playbook" /\ job.error = JsNull
            /\ job.status = "failed" => job.error.t = "string" /\ job.playbook = JsNull

\* a job that failed after two of its stages had produced their text
C6_Witness ==
    \E jobId \in JobIds :
        /\ Stored(jobId)
        /\ playbookStorage[jobId].status = "failed"
        /\ Len(stepResults[jobId]) = 2

\* C7: the launcher writes the processing record before it returns the jobId,
\* into the store the status endpoint reads: a status request for a jobId that
\* start has returned finds the record and never answers 404.
C7_IssuedJobIsFound ==
    /\ [](\A jobId \in issued : Stored(jobId))
    /\ [](startResponse.status = 200 => Stored(startResponse.jobId))
    /\ [][\A jobId \in QueryIds :
             (jobId \in issued /\ GetStatus(TRUE, jobId)) =>
                 /\ statusResponse'.status = 200
                 /\ statusResponse'.jobId = jobId]_vars

\* a status call made right after start returned, answered with the initial record
C7_Witness ==
    /\ statusResponse.status = 200
    /\ statusResponse.jobId \in issued
    /\ statusResponse.jobStatus = "processing"
    /\ statusResponse.progress.currentStep = 0

\* C8: start does not await the pipeline: when the start response is produced
\* the job is processing, its pipeline has only reached its first await and no
\* generation call has been made.
C8_StartDoesNotWait ==
    [][\A jobId \in JobIds :
          (jobId \notin issued /\ jobId \in issued') =>
              /\ startResponse'.status = 200
              /\ startResponse'.jobId = jobId
              /\ startResponse'.jobStatus = "processing"
              /\ playbookStorage'[jobId].status = "processing"
              /\ pc'[jobId] = "import"
              /\ genCalls'[jobId] = <<>>]_vars

\* the start response is out and the pipeline of its job has not run yet
C8_Witness ==
    /\ startResponse.status = 200
    /\ pc[startResponse.jobId] = "import"
    /\ playbookStorage[startResponse.jobId].progress.currentStep = 0

\* C9: start answers 400 when the input is missing, when it exceeds the
\* maximum size and when it is below the minimum size.
C9_StartValidatesSize ==
    [][\A md \in StartInputs :
          ( /\ Start(md)
            /\ \/ ~IsString(md)
               \/ Length(md) = 0
               \/ Length(md) > MaxMarkdownLength
               \/ Length(Trim(md)) < MinTrimmedLength ) =>
              startResponse'.status = 400]_vars

\* what C10 says the validation accepts
WithinLimits(md) ==
    /\ IsString(md)
    /\ Length(md) > 0
    /\ Length(md) <= MaxMarkdownLength
    /\ Length(Trim(md)) >= MinTrimmedLength

\* C10: the generate, checkout and extract-context routes accept exactly the
\* non-empty strings of at most 50,000 characters whose trimmed length is at
\* least 100.
C10_RoutesAcceptExactlyWithinLimits ==
    routeResponse # NoResponse =>
        (routeResponse.status # 400 <=> WithinLimits(routeResponse.markdown))

\* C10, amended: generate and checkout accept exactly those strings, and so
\* does extract-context unless MOCK_MODE is 'true'; in mock mode
\* extract-context validates nothing and answers 200 to every input.
C10_RoutesAcceptWithinLimitsUnlessMock ==
    routeResponse # NoResponse =>
        IF routeResponse.route = "extract-context" /\ mockMode
        THEN routeResponse.status = 200
        ELSE routeResponse.status # 400 <=> WithinLimits(routeResponse.markdown)

\* a text of exactly the maximum length was accepted
C10_Witness ==
    /\ routeResponse # NoResponse
    /\ routeResponse.route = "generate"
    /\ routeResponse.status = 200
    /\ Length(routeResponse.markdown) = MaxMarkdownLength

\* C11: a start request that fails validation creates no job: the store is
\* unchanged by the call and no background pipeline is started.
C11_RejectedStartCreatesNothing ==
    [][startResponse'.status = 400 =>
          /\ UNCHANGED <<playbookStorage, jobLocals, allocated, issued>>
          /\ \A jobId \in JobIds : pc[jobId] = "idle" => pc'[jobId] = "idle"]_vars

\* an empty markdown was refused while the store held nothing
C11_Witness ==
    /\ startResponse.status = 400
    /\ \A id \in QueryIds : ~Stored(id)
    /\ \A jobId \in JobIds : pc[jobId] = "idle"

\* C12: a status request for an id that was never issued answers 404, never a
\* made-up record, and adds no record to the store.
C12_UnknownIdNotFound ==
    [][\A id \in QueryIds :
          (id \notin allocated /\ statusResponse'.status # 0
             /\ statusResponse'.status # 400 /\ statusResponse'.jobId = id) =>
              /\ statusResponse'.status = 404
              /\ playbookStorage' = playbookStorage
              /\ ~Stored(id)']_vars

\* an id nobody issued was asked for while a job existed, and was not found
C12_Witness ==
    /\ statusResponse.status = 404
    /\ statusResponse.jobId \notin allocated
    /\ issued # {}

\* C13: the status response carries playbookUrl exactly when the job is
\* complete, and the url is built from the jobId alone.
C13_UrlIffComplete ==
    statusResponse.status = 200 =>
        /\ statusResponse.jobStatus = playbookStorage[statusResponse.jobId].status
        /\ statusResponse.playbookUrl # JsNull <=> statusResponse.jobStatus = "complete"
        /\ statusResponse.jobStatus = "complete" =>
               statusResponse.playbookUrl = Tmpl("/playbook/${jobId}", statusResponse.jobId)

\* a status response for a complete job, with its url
C13_Witness ==
    /\ statusResponse.status = 200
    /\ statusResponse.jobStatus = "complete"
    /\ statusResponse.playbookUrl = Tmpl("/playbook/${jobId}", statusResponse.jobId)

\* a text that contains the id of a stage
NamesStage(text) == \E n \in 1 .. Len(text.v) : text.v[n] \in GENERATION_STEPS

\* C14: every job whose status is failed carries an error string that names
\* the stage that failed.
C14_FailedErrorNamesStage ==
    \A jobId \in JobIds :
        (Stored(jobId) /\ playbookStorage[jobId].status = "failed") =>
            /\ playbookStorage[jobId].error.t = "string"
            /\ NamesStage(playbookStorage[jobId].error)

\* C15: generateStep never reports success for an empty result of the
\* language model: the outcome of the stage is then a failure, not a result.
C15_EmptyResultIsFailure ==
    ( /\ routeResponse # NoResponse
      /\ routeResponse.route = "generate-step"
      /\ routeResponse.ai = "empty" ) =>
        routeResponse.status # 200

\* C16: createFinalPlaybook is deterministic: two calls with the same steps
\* and the same context give the same artifact, whenever each is made.
C16_AssemblerDeterministic ==
    [][( /\ routeResponse # NoResponse
         /\ routeResponse.route = "assemble"
         /\ routeResponse'.route = "assemble"
         /\ routeResponse'.context = routeResponse.context
         /\ routeResponse'.steps = routeResponse.steps ) =>
            routeResponse'.artifact = routeResponse.artifact]_vars

\* the header createFinalPlaybook builds from the context
HeaderOf(ctx, artifact) ==
    /\ artifact.title = OrElse(Field(ctx, "productName"), Str("Your Product"))
    /\ artifact.product = OrElse(Field(ctx, "productName"), Str("Not specified"))
    /\ artifact.value = OrElse(Field(ctx, "coreValueProposition"), Str("Not specified"))
    /\ artifact.category = OrElse(Field(ctx, "productCategory"), Str("Not specified"))
    /\ artifact.stage = OrElse(Field(ctx, "productStage"), Str("Not specified"))
    /\ artifact.market = OrElse(Field(ctx, "targetMarketSize"), Str("Not specified"))

\* one section per stage, labeled, in the order of the pipeline's stages
SectionsInStageOrder(artifact) ==
    /\ Len(artifact.sections) = Len(steps)
    /\ \A n \in 1 .. Len(steps) : artifact.sections[n].heading = steps[n].id

\* C17: the artifact is the header followed by one labeled section per stage
\* in the fixed stage order, and every output present in the input, an empty
\* one included, appears unchanged in its section.
C17_EveryOutputUnchanged ==
    (routeResponse # NoResponse /\ routeResponse.route = "assemble") =>
        /\ HeaderOf(routeResponse.context, routeResponse.artifact)
        /\ SectionsInStageOrder(routeResponse.artifact)
        /\ \A n \in 1 .. Len(steps) :
              HasKey(routeResponse.steps, steps[n].id) =>
                  routeResponse.artifact.sections[n].body =
                      Get(routeResponse.steps, steps[n].id)

\* C17, amended: header, then one labeled section per stage in the fixed
\* order; a non-empty output appears unchanged in its section, and an empty or
\* absent one is replaced by the text 'Generation failed'.
C17_NonEmptyOutputUnchanged ==
    (routeResponse # NoResponse /\ routeResponse.route = "assemble") =>
        /\ HeaderOf(routeResponse.context, routeResponse.artifact)
        /\ SectionsInStageOrder(routeResponse.artifact)
        /\ \A n \in 1 .. Len(steps) :
              routeResponse.artifact.sections[n].body =
                  IF /\ HasKey(routeResponse.steps, steps[n].id)
                     /\ Get(routeResponse.steps, steps[n].id) # Str("")
                  THEN Get(routeResponse.steps, steps[n].id)
                  ELSE Str("Generation failed")

\* an artifact assembled from outputs given in the opposite order, one of them
\* empty: the sections are in stage order and the empty one reads 'Generation failed'
C17_Witness ==
    /\ routeResponse # NoResponse
    /\ routeResponse.route = "assemble"
    /\ Len(routeResponse.steps) = Len(steps)
    /\ routeResponse.steps[1].key = steps[Len(steps)].id
    /\ Get(routeResponse.steps, steps[1].id) = Str("")
    /\ routeResponse.artifact.sections[1].body = Str("Generation failed")
    /\ routeResponse.artifact.sections[2].body = AiText(steps[2].id)

\* the calls of a job before its k-th that were answered with a result
EarlierSuccesses(jobId, k) ==
    SelectSeq(SubSeq(genCalls[jobId], 1, k - 1), LAMBDA c : c.outcome = "ok")

\* C18: the previousSteps sent with the call of stage i holds the output of
\* every earlier stage that succeeded, keyed by stage id, in execution order,
\* and nothing else.
C18_PreviousStepsAreEarlierSuccesses ==
    \A jobId \in JobIds : \A k \in Calls(jobId) :
        LET sent == genCalls[jobId][k].previousSteps
            earlier == EarlierSuccesses(jobId, k)
        IN  /\ genCalls[jobId][k].step = steps[k].id
            /\ Len(sent) = Len(earlier)
            /\ \A n \in 1 .. Len(sent) :
                  /\ sent[n].key = earlier[n].step
                  /\ sent[n].value = Get(stepResults[jobId], earlier[n].step)
                  /\ TruthyValue(sent[n].value)

\* the third stage was called with the output of the first alone, the second
\* having been answered with an error status
C18_Witness ==
    \E jobId \in JobIds :
        /\ Len(genCalls[jobId]) >= 3
        /\ genCalls[jobId][1].outcome = "ok"
        /\ genCalls[jobId][2].outcome = "httpError"
        /\ Len(genCalls[jobId][3].previousSteps) = 1
        /\ genCalls[jobId][3].previousSteps[1].key = steps[1].id

C20_EventuallyTerminal ==
    \A jobId \in JobIds :
        Stored(jobId) ~> (Stored(jobId) /\ Terminal(playbookStorage[jobId]))

\* a job that ran through all its stages and is complete
C20_Witness ==
    \E jobId \in JobIds :
        /\ Stored(jobId)
        /\ playbookStorage[jobId].status = "complete"
        /\ pc[jobId] = "done"
        /\ Len(genCalls[jobId]) = Len(steps)

\* C21: a stage whose generation call does not return within the per-stage
\* timeout is a failed stage: the job becomes failed and does not stay
\* processing while the call hangs.
C21_HungCallFailsJob ==
    \A jobId \in JobIds :
        (pc[jobId] = "hung") ~>
            (Stored(jobId) /\ playbookStorage[jobId].status = "failed")

\* C22: two jobs started concurrently get distinct ids and separate records;
\* a write of one job's pipeline never changes the other job's record, and a
\* status response for a job shows that job's own record.
C22_JobsAreIsolated ==
    [][ /\ \A j \in PairIds, k \in PairIds :
              (j # k /\ Pipeline(k)) => playbookStorage'[j] = playbookStorage[j]
        /\ startResponse'.status = 200 =>
              /\ startResponse'.jobId \notin allocated
              /\ \A j \in PairIds \ {startResponse'.jobId} :
                    playbookStorage'[j] = playbookStorage[j]
        /\ statusResponse'.status = 200 =>
              LET job == playbookStorage[statusResponse'.jobId] IN
              /\ statusResponse'.jobStatus = job.status
              /\ statusResponse'.progress = job.progress
              /\ statusResponse'.error = job.error
              /\ statusResponse'.hasPlaybook = (job.playbook # JsNull) ]_vars

\* job 1 is polled while job 2 is further along: the response shows the step
\* of job 1
C22_Witness ==
    /\ statusResponse.status = 200
    /\ statusResponse.jobId = 1
    /\ issued = PairIds
    /\ pc[1] = "contextFetch"
    /\ pc[2] = "stepFetch"
    /\ statusResponse.progress.currentStep = 1
    /\ playbookStorage[2].progress.currentStep > 1

\* a progress object
ProgressOf(n, name, eta) ==
    [currentStep |-> n, totalSteps |-> 6, stepName |-> name, estimatedTimeRemaining |-> eta]

\* the progress values of the updates the code applies, each taken whole
WrittenProgress ==
    { ProgressOf(0, "Starting generation...", 90),
      ProgressOf(1, "Extracting context...", 75),
      ProgressOf(2, "Generating user analysis...", 60),
      ProgressOf(6, "Completed successfully!", 0) }
    \cup { ProgressOf(k + 2, steps[k].name, steps[k].time) : k \in 1 .. Len(steps) }

\* C23: every update of a record is atomic for status requests: a status read
\* sees all of an update's field changes or none, never a record with part of
\* an update applied.
C23_NoPartialUpdateSeen ==
    /\ \A jobId \in JobIds :
          Stored(jobId) =>
              LET job == playbookStorage[jobId] IN
              /\ job.progress \in WrittenProgress
              /\ job.status = "complete" <=> job.progress.stepName = "Completed successfully!"
              /\ job.status = "complete" <=> job.playbook # JsNull
              /\ job.status = "failed" <=> job.error # JsNull
    /\ statusResponse.status = 200 =>
          /\ statusResponse.progress \in WrittenProgress
          /\ statusResponse.jobStatus = "complete" <=>
                 statusResponse.progress.stepName = "Completed successfully!"
          /\ statusResponse.jobStatus = "complete" <=> statusResponse.hasPlaybook
          /\ statusResponse.jobStatus = "failed" <=> statusResponse.error # JsNull

\* a status read made between two updates, while the third stage's call is out
C23_Witness ==
    /\ statusResponse.status = 200
    /\ pc[statusResponse.jobId] = "stepFetch"
    /\ statusResponse.jobStatus = "processing"
    /\ statusResponse.progress = ProgressOf(5, steps[3].name, steps[3].time)

\* C24: an error thrown inside the pipeline never reaches the caller of start:
\* it is caught, the step answers no request, the ids start issued stay as
\* they were, and the job is stored failed with a non-empty error.
C24_ThrownErrorIsRecorded ==
    [][\A jobId \in JobIds :
          (BgContextThrows(jobId) \/ BgStepThrows(jobId)) =>
              /\ jobId \in issued
              /\ issued' = issued
              /\ startResponse' = NoResponse
              /\ pc'[jobId] = "done"
              /\ playbookStorage'[jobId].status = "failed"
              /\ TruthyValue(playbookStorage'[jobId].error)
              /\ playbookStorage'[jobId].playbook = JsNull]_vars

\* the context extraction of an issued job threw and the job is stored failed
C24_Witness ==
    \E jobId \in issued :
        /\ pc[jobId] = "done"
        /\ genCalls[jobId] = <<>>
        /\ playbookStorage[jobId].status = "failed"
        /\ playbookStorage[jobId].error = FetchFailed

\* C25: whenever a job is complete its playbook is createFinalPlaybook of the
\* job's context and stage outputs, and its progress holds the terminal
\* values: currentStep = totalSteps and estimatedTimeRemaining = 0.
C25_CompleteHoldsArtifactAndTerminalProgress ==
    \A jobId \in JobIds :
        (Stored(jobId) /\ playbookStorage[jobId].status = "complete") =>
            LET job == playbookStorage[jobId] IN
            /\ job.playbook = createFinalPlaybook(context[jobId], stepResults[jobId], today)
            /\ \A n \in 1 .. Len(steps) :
                  job.playbook.sections[n].body = Get(stepResults[jobId], steps[n].id)
            /\ job.progress.currentStep = job.progress.totalSteps
            /\ job.progress.estimatedTimeRemaining = 0

\* a complete job whose five stages all returned their text
C25_Witness ==
    \E jobId \in JobIds :
        /\ Stored(jobId)
        /\ playbookStorage[jobId].status = "complete"
        /\ \A k \in Calls(jobId) : genCalls[jobId][k].outcome = "ok"
        /\ playbookStorage[jobId].playbook.sections[5].body = AiText(steps[5].id)
        /\ playbookStorage[jobId].progress.currentStep = 6

\* C30: when POST /api/generate answers a request that passed validation, the
\* record of the id it allocated is terminal: complete with the playbook
\* stored and a 200 response carrying that playbookId, or failed with an error
\* stored and a 500 response; a record is processing only while its request
\* still awaits generatePlaybook.
C30_SyncGenerateEndsTerminal ==
    [][/\ \A req \in generating : req \notin generating' =>
            LET rec == playbookStorage'[req.playbookId] IN
            \/ /\ rec.status = "complete"
               /\ "playbook" \in DOMAIN rec
               /\ rec.playbook.t = "string"
               /\ routeResponse'.route = "generate"
               /\ routeResponse'.status = 200
               /\ routeResponse'.playbookId = req.playbookId
            \/ /\ rec.status = "failed"
               /\ "error" \in DOMAIN rec
               /\ rec.error.t = "string"
               /\ routeResponse'.route = "generate"
               /\ routeResponse'.status = 500
       /\ \A id \in QueryIds :
            (playbookStorage'[id] # JsUndefined /\ playbookStorage'[id].status = "processing")
                => \E req \in generating' : req.playbookId = id]_vars

\* a generation failed: the request was answered 500 and its record is failed
C30_Witness ==
    /\ routeResponse.status = 500
    /\ routeResponse.route = "generate"
    /\ generating = {}
    /\ \E id \in allocated :
          /\ Stored(id)
          /\ playbookStorage[id].status = "failed"
          /\ playbookStorage[id].error = Str("Generation failed")

\* C26: a record of the webhook that is complete or failed is not written
\* again, whatever events are delivered afterwards, the same
\* checkout.session.completed event included.
C26_WebhookTerminalFrozen ==
    [][\A id \in PlaybookIds :
          (webhookStorage[id] # JsUndefined
              /\ webhookStorage[id].status \in {"complete", "failed"})
          => webhookStorage'[id] = webhookStorage[id]]_vars

\* a stage the client pipeline completed: its recorded result
ClientCompleted(n) ==
    /\ Get(clientStepResults, ClientSteps[n].id) # JsUndefined
    /\ Get(clientStepResults, ClientSteps[n].id).completed

\* C27: in the client-driven pipeline the request for a stage carries in
\* previousSteps the result of every stage completed before it was sent, and
\* the final playbook has, in the section of each completed stage, that
\* stage's result.
C27_ClientResultsReachConsumers ==
    /\ \A n \in 1 .. Len(clientRequests) : \A j \in 1 .. n - 1 :
          ClientCompleted(j) =>
              Get(clientRequests[n].previousSteps, ClientSteps[j].id)
                  = ResultOf(clientStepResults, ClientSteps[j].id)
    /\ clientPlaybook # JsUndefined =>
          \A n \in 1 .. Len(ClientSteps) :
              ClientCompleted(n) =>
                  clientPlaybook.sections[n].body
                      = ResultOf(clientStepResults, ClientSteps[n].id)

\* C28: the polling page never holds more than one active polling timer.
C28_AtMostOnePollingTimer ==
    Cardinality(pollTimers) <= 1

\* C29: once the page has received a status response that reports failed or
\* complete, there is a point after which no polling timer is active and no
\* status request is out.
C29_PollingStopsAfterTerminal ==
    (jobStatus # JsNull /\ jobStatus.status \in {"failed", "complete"})
        ~> [](pollTimers = {} /\ pollInflight = {})

====
